---------------------------- MODULE Spec2Model ----------------------------
(***************************************************************************)
(* beetsplug/acousticbrainz.py: the scheme-driven mapping of a fetched     *)
(* AcousticBrainz document onto item attributes.                           *)
(*                                                                         *)
(* Python values are tagged records: Str (a str, kept as a TLA+ string),   *)
(* Num (a number), Dict (a dict, kept as the sequence of its entries in    *)
(* iteration order).  A scheme node is a dict (Nested), a tuple            *)
(* (name, position) or a str (the target attribute).  The generators       *)
(* _map_dict_to_scheme and _dict_to_scheme_child are run one loop          *)
(* iteration at a time; a Python exception ends the run in pc = "raised".  *)
(*                                                                         *)
(* Spec      one call of _map_dict_to_scheme on every scheme and document  *)
(*           of a family over two keys                                     *)
(* FairSpec  Spec with the generator always run on                         *)
(* SpecTwice a second call on the same scheme and a reordered document     *)
(* SpecFetch _fetch_info with ABSCHEME, each request answered in any way   *)
(***************************************************************************)
EXTENDS Integers, Sequences, FiniteSets, TLC

VARIABLES
    scheme,       \* the scheme handed to _map_dict_to_scheme
    dictionary,   \* the document handed to _map_dict_to_scheme
    pc,           \* "idle" | "walk" | "emit" | "done" | "raised"
    stack,        \* the live _dict_to_scheme_child generators, innermost last
    composites,   \* the defaultdict of DefaultList, entries in insertion order
    ci,           \* index of the next composites entry to join and yield
    out,          \* the pairs yielded so far by _map_dict_to_scheme
    log,          \* the debug records of _dict_to_scheme_child
    src,          \* history: for each pair of out, the scheme path it came from
    visited,      \* history: the scheme paths whose loop iteration has run
    writes,       \* history: the composites[name][pos] = value assignments
    raisedIn,     \* history: "" | "walk" | "emit", where the exception was raised
    prev,         \* history: the runs of _map_dict_to_scheme that have ended
    items,        \* _fetch_info: the items, each with its mb_trackid
    write,        \* _fetch_info: the write argument
    idx,          \* _fetch_info: index of the item of the current iteration
    fpc,          \* _fetch_info: "off" | "loop" | "get" | "got" | "map" |
                  \*              "store" | "write" | "end" | "raised"
    lvl,          \* _get_data: index of the next url of _generate_urls
    data,         \* _get_data: the dict being filled, then its return value
    requests,     \* history: the requests.get calls, with their outcome
    attrs,        \* per item, the attributes set by setattr
    stored,       \* per item, whether item.store() was called
    written       \* per item, whether item.try_write() was called

walkvars == <<scheme, dictionary, pc, stack, composites, ci, out, log,
              src, visited, writes, raisedIn>>

fetchvars == <<items, write, idx, fpc, lvl, data, requests, attrs, stored,
               written>>

----------------------------------------------------------------------------
(* Python values *)

Str(s) == [t |-> "str", s |-> s]
Num(n) == [t |-> "num", n |-> n]
Dict(entries) == [t |-> "dict", items |-> entries]
Entry(k, v) == [k |-> k, v |-> v]

(* scheme nodes: 'attr', ('name', pos), {...} *)
Direct(attr) == [t |-> "str", attr |-> attr]
Composite(name, pos) == [t |-> "tuple", name |-> name, pos |-> pos]
Nested(entries) == [t |-> "dict", items |-> entries]

Keys(entries) == {entries[i].k : i \in 1..Len(entries)}

Lookup(entries, k) ==
    entries[CHOOSE i \in 1..Len(entries) : entries[i].k = k].v

(* str.__contains__: k is a substring of s *)
Contains(k, s) ==
    \E i \in 1..(Len(s) - Len(k) + 1) : SubSeq(s, i, i + Len(k) - 1) = k

(* `k in subdict` (line 185): a dict tests its keys, a str tests for a     *)
(* substring, a number is not iterable and raises TypeError.               *)
In(k, subdict) ==
    CASE subdict.t = "dict" -> IF k \in Keys(subdict.items) THEN "yes" ELSE "no"
      [] subdict.t = "str"  -> IF Contains(k, subdict.s) THEN "yes" ELSE "no"
      [] OTHER              -> "TypeError"

(* `subdict[k]` (lines 187, 192, 194), evaluated only after `k in subdict` *)
(* was true: a str indexed by a str raises TypeError.                      *)
GetItemRaises(subdict) == subdict.t # "dict"

(* mutant: the value of the first entry, whatever the key *)
GetItemFirst(subdict, k) == subdict.items[1].v

GetItem(subdict, k) == Lookup(subdict.items, k)

----------------------------------------------------------------------------
(* DefaultList and the defaultdict of composites *)

Default == Str("")

(* mutant: assigns in place when the index is covered *)
RECURSIVE SetItemOverwrites(_, _, _)
SetItemOverwrites(list, index, value) ==
    IF Len(list) < index
    THEN SetItemOverwrites(Append(list, Default), index, value)
    ELSE IF Len(list) = index THEN Append(list, value)
    ELSE [list EXCEPT ![index + 1] = value]

(* mutant: pads while len(self) <= index *)
RECURSIVE SetItemPadsOneMore(_, _, _)
SetItemPadsOneMore(list, index, value) ==
    IF Len(list) <= index
    THEN SetItemPadsOneMore(Append(list, Default), index, value)
    ELSE Append(list, value)

(* DefaultList.__setitem__ (lines 214-217) *)
RECURSIVE SetItem(_, _, _)
SetItem(list, index, value) ==
    IF Len(list) < index
    THEN SetItem(Append(list, Default), index, value)
    ELSE Append(list, value)

(* composites[name][pos] = value (line 192): the defaultdict creates an    *)
(* empty DefaultList('') for a new name, at the end of the dict.           *)
CompositesSet(comp, name, pos, value) ==
    IF name \in Keys(comp)
    THEN [i \in 1..Len(comp) |->
            IF comp[i].k = name
            THEN Entry(name, SetItem(comp[i].v, pos, value))
            ELSE comp[i]]
    ELSE Append(comp, Entry(name, SetItem(<<>>, pos, value)))

(* ' '.join(v) (line 181) raises TypeError on an element that is no str *)
JoinRaises(list) == \E i \in 1..Len(list) : list[i].t # "str"

RECURSIVE Join(_)
Join(list) ==
    IF Len(list) = 0 THEN ""
    ELSE IF Len(list) = 1 THEN list[1].s
    ELSE list[1].s \o " " \o Join(Tail(list))

----------------------------------------------------------------------------
(* _map_dict_to_scheme and _dict_to_scheme_child, one loop iteration each *)

Frame(subdict, subscheme, path) ==
    [subdict |-> subdict, items |-> subscheme.items, i |-> 1, path |-> path]

Top == stack[Len(stack)]
TopK == Top.items[Top.i].k
TopV == Top.items[Top.i].v
TopPath == Append(Top.path, TopK)

(* mutant: the loop does not move on to the next entry *)
AdvanceStuck(stk) == stk

Advance(stk) == [stk EXCEPT ![Len(stk)].i = @ + 1]

Walking == pc = "walk" /\ Len(stack) > 0
AtEntry == Walking /\ Top.i <= Len(Top.items)

(* setattr(item, attr, val) (line 169) *)
SetAttr(its, attr, val) ==
    IF attr \in Keys(its)
    THEN [i \in 1..Len(its) |-> IF its[i].k = attr THEN Entry(attr, val) ELSE its[i]]
    ELSE Append(its, Entry(attr, val))

(* The consumer of the generator.  Under _fetch_info (fpc = "map") it is   *)
(* the for loop of lines 164-169: each pair yielded is set on the item,    *)
(* the end of the generator leads to item.store(), and a TypeError leaves  *)
(* _fetch_info.  Otherwise the caller only collects the pairs in out.      *)
Consumer ==
    /\ attrs' = IF fpc = "map" /\ Len(out') > Len(out)
                THEN [attrs EXCEPT ![idx] =
                        SetAttr(@, out'[Len(out')].attr, out'[Len(out')].val)]
                ELSE attrs
    /\ fpc' = IF fpc # "map" THEN fpc
              ELSE CASE pc' = "done"   -> "store"
                     [] pc' = "raised" -> "raised"
                     [] OTHER          -> "map"
    /\ UNCHANGED <<items, write, idx, lvl, data, requests, stored, written,
                   prev>>

(* mutant: the defaultdict of the previous call is used again *)
StaleComposites == composites

(* line 175: defaultdict(lambda: DefaultList('')) *)
FreshComposites == <<>>

(* lines 175-176: a fresh defaultdict, then the outermost generator *)
Call ==
    /\ pc = "idle"
    /\ fpc \in {"off", "map"}
    /\ pc' = "walk"
    /\ composites' = FreshComposites
    /\ stack' = <<Frame(dictionary, scheme, <<>>)>>
    /\ ci' = 1
    /\ out' = <<>>
    /\ src' = <<>>
    /\ UNCHANGED <<scheme, dictionary, log, visited, writes, raisedIn>>
    /\ Consumer

(* line 184 exhausted: the innermost generator returns; when it was the    *)
(* outermost one, line 180 starts *)
Return ==
    /\ Walking
    /\ Top.i > Len(Top.items)
    /\ stack' = SubSeq(stack, 1, Len(stack) - 1)
    /\ pc' = IF Len(stack) = 1 THEN "emit" ELSE "walk"
    /\ UNCHANGED <<scheme, dictionary, composites, ci, out, log, src,
                   visited, writes, raisedIn>>
    /\ Consumer

(* line 185 on a number, or subdict[k] on a str: TypeError leaves every    *)
(* generator and _map_dict_to_scheme *)
RaiseInWalk ==
    /\ AtEntry
    /\ \/ In(TopK, Top.subdict) = "TypeError"
       \/ In(TopK, Top.subdict) = "yes" /\ GetItemRaises(Top.subdict)
    /\ pc' = "raised"
    /\ raisedIn' = "walk"
    /\ stack' = <<>>
    /\ visited' = Append(visited, TopPath)
    /\ UNCHANGED <<scheme, dictionary, composites, ci, out, log, src, writes>>
    /\ Consumer

(* mutant: a missing key ends the loop over the scheme's entries *)
KeyNotFoundBreaks ==
    /\ AtEntry
    /\ In(TopK, Top.subdict) = "no"
    /\ log' = Append(log, [key |-> TopK, path |-> TopPath])
    /\ stack' = [stack EXCEPT ![Len(stack)].i = Len(Top.items) + 1]
    /\ visited' = Append(visited, TopPath)
    /\ UNCHANGED <<scheme, dictionary, pc, composites, ci, out, src, writes,
                   raisedIn>>
    /\ Consumer

(* lines 195-197 *)
KeyNotFound ==
    /\ AtEntry
    /\ In(TopK, Top.subdict) = "no"
    /\ log' = Append(log, [key |-> TopK, path |-> TopPath])
    /\ stack' = Advance(stack)
    /\ visited' = Append(visited, TopPath)
    /\ UNCHANGED <<scheme, dictionary, pc, composites, ci, out, src, writes,
                   raisedIn>>
    /\ Consumer

Found ==
    /\ AtEntry
    /\ In(TopK, Top.subdict) = "yes"
    /\ ~GetItemRaises(Top.subdict)

(* lines 186-190 *)
Descend ==
    /\ Found
    /\ TopV.t = "dict"
    /\ stack' = Append(Advance(stack),
                       Frame(GetItem(Top.subdict, TopK), TopV, TopPath))
    /\ visited' = Append(visited, TopPath)
    /\ UNCHANGED <<scheme, dictionary, pc, composites, ci, out, log, src,
                   writes, raisedIn>>
    /\ Consumer

(* mutant: the fragment is also yielded at once, inside the walk *)
WriteCompositeYieldsAtOnce ==
    /\ Found
    /\ TopV.t = "tuple"
    /\ composites' = CompositesSet(composites, TopV.name, TopV.pos,
                                   GetItem(Top.subdict, TopK))
    /\ writes' = Append(writes, [name |-> TopV.name, pos |-> TopV.pos,
                                 value |-> GetItem(Top.subdict, TopK),
                                 path |-> TopPath])
    /\ out' = Append(out, [attr |-> TopV.name,
                           val |-> GetItem(Top.subdict, TopK)])
    /\ src' = Append(src, <<>>)
    /\ stack' = Advance(stack)
    /\ visited' = Append(visited, TopPath)
    /\ UNCHANGED <<scheme, dictionary, pc, ci, log, raisedIn>>
    /\ Consumer

(* lines 191-192 *)
WriteComposite ==
    /\ Found
    /\ TopV.t = "tuple"
    /\ composites' = CompositesSet(composites, TopV.name, TopV.pos,
                                   GetItem(Top.subdict, TopK))
    /\ writes' = Append(writes, [name |-> TopV.name, pos |-> TopV.pos,
                                 value |-> GetItem(Top.subdict, TopK),
                                 path |-> TopPath])
    /\ stack' = Advance(stack)
    /\ visited' = Append(visited, TopPath)
    /\ UNCHANGED <<scheme, dictionary, pc, ci, out, log, src, raisedIn>>
    /\ Consumer

(* lines 193-194 *)
YieldDirect ==
    /\ Found
    /\ TopV.t = "str"
    /\ out' = Append(out, [attr |-> TopV.attr,
                           val |-> GetItem(Top.subdict, TopK)])
    /\ src' = Append(src, TopPath)
    /\ stack' = Advance(stack)
    /\ visited' = Append(visited, TopPath)
    /\ UNCHANGED <<scheme, dictionary, pc, composites, ci, log, writes,
                   raisedIn>>
    /\ Consumer

(* lines 180-181, one composite *)
YieldComposite ==
    /\ pc = "emit"
    /\ ci <= Len(composites)
    /\ ~JoinRaises(composites[ci].v)
    /\ out' = Append(out, [attr |-> composites[ci].k,
                           val |-> Str(Join(composites[ci].v))])
    /\ src' = Append(src, <<>>)
    /\ ci' = ci + 1
    /\ UNCHANGED <<scheme, dictionary, pc, stack, composites, log, visited,
                   writes, raisedIn>>
    /\ Consumer

(* line 181: ' '.join raises TypeError *)
RaiseInJoin ==
    /\ pc = "emit"
    /\ ci <= Len(composites)
    /\ JoinRaises(composites[ci].v)
    /\ pc' = "raised"
    /\ raisedIn' = "emit"
    /\ UNCHANGED <<scheme, dictionary, stack, composites, ci, out, log, src,
                   visited, writes>>
    /\ Consumer

(* line 180 exhausted: _map_dict_to_scheme returns *)
Finish ==
    /\ pc = "emit"
    /\ ci > Len(composites)
    /\ pc' = "done"
    /\ UNCHANGED <<scheme, dictionary, stack, composites, ci, out, log, src,
                   visited, writes, raisedIn>>
    /\ Consumer

WalkStep ==
    \/ Return
    \/ RaiseInWalk
    \/ KeyNotFound
    \/ Descend
    \/ WriteComposite
    \/ YieldDirect

EmitStep ==
    \/ YieldComposite
    \/ RaiseInJoin
    \/ Finish

----------------------------------------------------------------------------
(* The inputs: schemes and documents over two keys *)

MaxPos == 2

KeyA == "a"
KeyO == "o"

Scalars == {Str("C"), Str("major"), Num(7)}

Leaves ==
    {Direct("x")} \cup {Composite("n", p) : p \in 0..MaxPos}
                  \cup {Composite("m", 0)}

(* a dict with at most the entries a and o, in that order *)
DictOver(as, os) ==
    {<<>>} \cup {<<Entry(KeyA, a)>> : a \in as}
           \cup {<<Entry(KeyO, o)>> : o \in os}
           \cup {<<Entry(KeyA, a), Entry(KeyO, o)>> : a \in as, o \in os}

Swapped(itemsets) ==
    {<<its[2], its[1]>> : its \in {x \in itemsets : Len(x) = 2}}

InnerSchemes == {Nested(its) : its \in DictOver(Leaves, Leaves)}

Schemes ==
    LET its == DictOver(Leaves \cup InnerSchemes, Leaves)
    IN  {Nested(x) : x \in its \cup Swapped(its)}

InnerDocs == {Dict(its) : its \in DictOver(Scalars, Scalars)}

Documents == {Dict(its) : its \in DictOver(Scalars \cup InnerDocs, Scalars)}

WalkInit ==
    /\ pc = "idle"
    /\ stack = <<>>
    /\ composites = <<>>
    /\ ci = 1
    /\ out = <<>>
    /\ log = <<>>
    /\ src = <<>>
    /\ visited = <<>>
    /\ writes = <<>>
    /\ raisedIn = ""
    /\ prev = <<>>

(* _fetch_info is not running *)
FetchOff ==
    /\ items = <<>>
    /\ write = FALSE
    /\ idx = 0
    /\ fpc = "off"
    /\ lvl = 0
    /\ data = Dict(<<>>)
    /\ requests = <<>>
    /\ attrs = <<>>
    /\ stored = <<>>
    /\ written = <<>>

vars == <<walkvars, prev, fetchvars>>

(* one call of _map_dict_to_scheme(dictionary, scheme), its generator run  *)
(* to the end *)
Init ==
    /\ scheme \in Schemes
    /\ dictionary \in Documents
    /\ WalkInit
    /\ FetchOff

Next ==
    \/ Call
    \/ WalkStep
    \/ EmitStep

Spec == Init /\ [][Next]_vars

(* the generator is always run on: a consumer such as list() or the for    *)
(* loop of _fetch_info takes every pair *)
FairSpec == Spec /\ WF_vars(Next)

----------------------------------------------------------------------------
(* A second call on the same scheme and a document of the same content *)

RECURSIVE Reorderings(_)
Reorderings(v) ==
    IF v.t # "dict" THEN {v}
    ELSE LET n == Len(v.items)
             each == [i \in 1..n |-> Reorderings(v.items[i].v)]
             picks == {f \in [1..n -> UNION {each[i] : i \in 1..n}] :
                          \A i \in 1..n : f[i] \in each[i]}
         IN  {Dict([i \in 1..n |-> Entry(v.items[q[i]].k, f[q[i]])]) :
                 q \in Permutations(1..n), f \in picks}

CallAgain ==
    /\ pc \in {"done", "raised"}
    /\ prev = <<>>
    /\ prev' = <<[dictionary |-> dictionary, out |-> out, pc |-> pc,
                  raisedIn |-> raisedIn, composites |-> composites]>>
    /\ dictionary' \in Reorderings(dictionary)
    /\ pc' = "idle"
    /\ log' = <<>>
    /\ visited' = <<>>
    /\ writes' = <<>>
    /\ raisedIn' = ""
    /\ UNCHANGED <<scheme, stack, composites, ci, out, src>>
    /\ UNCHANGED fetchvars

NextTwice ==
    \/ Next
    \/ CallAgain

(* the documents of the second-call runs hold strings and dicts *)
Strings == {Str("C"), Str("major")}

DocumentsTwice ==
    LET inner == {Dict(its) : its \in DictOver(Strings, Strings)}
    IN  {Dict(its) : its \in DictOver(Strings \cup inner, Strings)}

InitTwice ==
    /\ scheme \in Schemes
    /\ dictionary \in DocumentsTwice
    /\ WalkInit
    /\ FetchOff

SpecTwice == InitTwice /\ [][NextTwice]_vars

----------------------------------------------------------------------------
(* _fetch_info and _get_data *)

ACOUSTIC_BASE == "https://acousticbrainz.org/"
LEVELS == <<"/low-level", "/high-level">>

ABSCHEME ==
    Nested(<<
        Entry("highlevel", Nested(<<
            Entry("danceability", Nested(<<
                Entry("all", Nested(<<
                    Entry("danceable", Direct("danceable")) >>)) >>)),
            Entry("gender", Nested(<<
                Entry("value", Direct("gender")) >>)),
            Entry("genre_rosamerica", Nested(<<
                Entry("value", Direct("genre_rosamerica")) >>)),
            Entry("mood_acoustic", Nested(<<
                Entry("all", Nested(<<
                    Entry("acoustic", Direct("mood_acoustic")) >>)) >>)),
            Entry("mood_aggressive", Nested(<<
                Entry("all", Nested(<<
                    Entry("aggressive", Direct("mood_aggressive")) >>)) >>)),
            Entry("mood_electronic", Nested(<<
                Entry("all", Nested(<<
                    Entry("electronic", Direct("mood_electronic")) >>)) >>)),
            Entry("mood_happy", Nested(<<
                Entry("all", Nested(<<
                    Entry("happy", Direct("mood_happy")) >>)) >>)),
            Entry("mood_party", Nested(<<
                Entry("all", Nested(<<
                    Entry("party", Direct("mood_party")) >>)) >>)),
            Entry("mood_relaxed", Nested(<<
                Entry("all", Nested(<<
                    Entry("relaxed", Direct("mood_relaxed")) >>)) >>)),
            Entry("mood_sad", Nested(<<
                Entry("all", Nested(<<
                    Entry("sad", Direct("mood_sad")) >>)) >>)),
            Entry("ismir04_rhythm", Nested(<<
                Entry("value", Direct("rhythm")) >>)),
            Entry("tonal_atonal", Nested(<<
                Entry("all", Nested(<<
                    Entry("tonal", Direct("tonal")) >>)) >>)),
            Entry("voice_instrumental", Nested(<<
                Entry("value", Direct("voice_instrumental")) >>)) >>)),
        Entry("lowlevel", Nested(<<
            Entry("average_loudness", Direct("average_loudness")) >>)),
        Entry("rhythm", Nested(<<
            Entry("bpm", Direct("bpm")) >>)),
        Entry("tonal", Nested(<<
            Entry("chords_changes_rate", Direct("chords_changes_rate")),
            Entry("chords_key", Direct("chords_key")),
            Entry("chords_number_rate", Direct("chords_number_rate")),
            Entry("chords_scale", Direct("chords_scale")),
            Entry("key_key", Composite("initial_key", 0)),
            Entry("key_scale", Composite("initial_key", 1)),
            Entry("key_strength", Direct("key_strength")) >>)) >>)

(* _generate_urls (lines 200-204) *)
GenerateUrls(mbid) == [i \in 1..Len(LEVELS) |-> ACOUSTIC_BASE \o mbid \o LEVELS[i]]

(* dict.update (line 147): a key already there keeps its place and takes   *)
(* the new value, a new key goes to the end *)
RECURSIVE Update(_, _)
Update(its, more) ==
    IF more = <<>> THEN its
    ELSE LET e == Head(more)
             put == IF e.k \in Keys(its)
                    THEN [i \in 1..Len(its) |->
                            IF its[i].k = e.k THEN e ELSE its[i]]
                    ELSE Append(its, e)
         IN  Update(put, Tail(more))

(* mutant: the levels fetched so far are returned *)
PartialOnFailure(d) == d

(* `return {}` (lines 140, 144, 150) *)
EmptyOnFailure(d) == Dict(<<>>)

(* truth value of a dict (line 163) *)
Truthy(d) == d.items # <<>>

Failures == {"RequestException", "404", "ValueError"}

(* line 157 exhausted *)
LoopEnd ==
    /\ fpc = "loop"
    /\ idx > Len(items)
    /\ fpc' = "end"
    /\ UNCHANGED <<items, write, idx, lvl, data, requests, attrs, stored,
                   written>>
    /\ UNCHANGED <<walkvars, prev>>

(* lines 158-159 *)
SkipItem ==
    /\ fpc = "loop"
    /\ idx <= Len(items)
    /\ items[idx].mb_trackid = ""
    /\ idx' = idx + 1
    /\ UNCHANGED <<items, write, fpc, lvl, data, requests, attrs, stored,
                   written>>
    /\ UNCHANGED <<walkvars, prev>>

(* lines 161-162 and 132 *)
BeginGetData ==
    /\ fpc = "loop"
    /\ idx <= Len(items)
    /\ items[idx].mb_trackid # ""
    /\ fpc' = "get"
    /\ data' = Dict(<<>>)
    /\ lvl' = 1
    /\ UNCHANGED <<items, write, idx, requests, attrs, stored, written>>
    /\ UNCHANGED <<walkvars, prev>>

Url == GenerateUrls(items[idx].mb_trackid)[lvl]

(* lines 136-144 and 146-150: the request raises, answers 404, or its body *)
(* is no JSON *)
RequestFails ==
    /\ fpc = "get"
    /\ lvl <= Len(LEVELS)
    /\ \E why \in Failures :
          requests' = Append(requests, [item |-> idx, url |-> Url,
                                        outcome |-> why])
    /\ data' = EmptyOnFailure(data)
    /\ fpc' = "got"
    /\ UNCHANGED <<items, write, idx, lvl, attrs, stored, written>>
    /\ UNCHANGED <<walkvars, prev>>

(* the responses with a JSON body *)
LowLevelBody ==
    Dict(<< Entry("lowlevel", Dict(<<Entry("average_loudness", Num(1))>>)),
            Entry("metadata", Dict(<<Entry("version", Str("low"))>>)),
            Entry("rhythm", Dict(<<Entry("bpm", Num(120))>>)),
            Entry("tonal", Dict(<< Entry("key_key", Str("C")),
                                   Entry("key_scale", Str("major")),
                                   Entry("key_strength", Num(1)) >>)) >>)

HighLevelBody ==
    Dict(<< Entry("highlevel",
                  Dict(<< Entry("gender", Dict(<<Entry("value", Str("female"))>>)),
                          Entry("mood_happy",
                                Dict(<<Entry("all",
                                             Dict(<<Entry("happy", Num(1))>>))>>)) >>)),
            Entry("metadata", Dict(<<Entry("version", Str("high"))>>)) >>)

Bodies ==
    { LowLevelBody,
      HighLevelBody,
      Dict(<<>>),
      Dict(<<Entry("lowlevel", Num(7))>>),
      Dict(<<Entry("tonal", Dict(<<Entry("key_key", Num(3))>>))>>) }

(* lines 137-147 *)
RequestSucceeds ==
    /\ fpc = "get"
    /\ lvl <= Len(LEVELS)
    /\ requests' = Append(requests, [item |-> idx, url |-> Url,
                                     outcome |-> "ok"])
    /\ \E body \in Bodies : data' = Dict(Update(data.items, body.items))
    /\ lvl' = lvl + 1
    /\ UNCHANGED <<items, write, idx, fpc, attrs, stored, written>>
    /\ UNCHANGED <<walkvars, prev>>

(* line 152 *)
ReturnData ==
    /\ fpc = "get"
    /\ lvl > Len(LEVELS)
    /\ fpc' = "got"
    /\ UNCHANGED <<items, write, idx, lvl, data, requests, attrs, stored,
                   written>>
    /\ UNCHANGED <<walkvars, prev>>

(* line 163, data empty: on to the next item *)
NoData ==
    /\ fpc = "got"
    /\ ~Truthy(data)
    /\ idx' = idx + 1
    /\ fpc' = "loop"
    /\ UNCHANGED <<items, write, lvl, data, requests, attrs, stored, written>>
    /\ UNCHANGED <<walkvars, prev>>

(* lines 163-164: _map_dict_to_scheme(data, ABSCHEME) *)
BeginMap ==
    /\ fpc = "got"
    /\ Truthy(data)
    /\ fpc' = "map"
    /\ dictionary' = data
    /\ pc' = "idle"
    /\ visited' = <<>>
    /\ writes' = <<>>
    /\ raisedIn' = ""
    /\ UNCHANGED <<scheme, stack, composites, ci, out, log, src, prev>>
    /\ UNCHANGED <<items, write, idx, lvl, data, requests, attrs, stored,
                   written>>

(* lines 170-171 *)
Store ==
    /\ fpc = "store"
    /\ stored' = [stored EXCEPT ![idx] = TRUE]
    /\ fpc' = IF write THEN "write" ELSE "loop"
    /\ idx' = IF write THEN idx ELSE idx + 1
    /\ UNCHANGED <<items, write, lvl, data, requests, attrs, written>>
    /\ UNCHANGED <<walkvars, prev>>

(* line 172 *)
TryWrite ==
    /\ fpc = "write"
    /\ written' = [written EXCEPT ![idx] = TRUE]
    /\ fpc' = "loop"
    /\ idx' = idx + 1
    /\ UNCHANGED <<items, write, lvl, data, requests, attrs, stored>>
    /\ UNCHANGED <<walkvars, prev>>

Item(mbid) == [mb_trackid |-> mbid]

ItemLists ==
    { <<Item("id1")>>,
      <<Item(""), Item("id1")>>,
      <<Item("id1"), Item("id2")>> }

InitFetch ==
    /\ items \in ItemLists
    /\ write \in BOOLEAN
    /\ idx = 1
    /\ fpc = "loop"
    /\ lvl = 0
    /\ data = Dict(<<>>)
    /\ requests = <<>>
    /\ attrs = [i \in 1..Len(items) |-> <<>>]
    /\ stored = [i \in 1..Len(items) |-> FALSE]
    /\ written = [i \in 1..Len(items) |-> FALSE]
    /\ scheme = ABSCHEME
    /\ dictionary = Dict(<<>>)
    /\ WalkInit

NextFetch ==
    \/ LoopEnd
    \/ SkipItem
    \/ BeginGetData
    \/ RequestFails
    \/ RequestSucceeds
    \/ ReturnData
    \/ NoData
    \/ BeginMap
    \/ Call
    \/ WalkStep
    \/ EmitStep
    \/ Store
    \/ TryWrite

SpecFetch == InitFetch /\ [][NextFetch]_vars

----------------------------------------------------------------------------
(* Reading the scheme and the document by path, for the properties *)

Last(p) == p[Len(p)]
Front(p) == SubSeq(p, 1, Len(p) - 1)
IsPrefix(p, q) == Len(p) <= Len(q) /\ SubSeq(q, 1, Len(p)) = p
StrictlyBelow(q, p) == IsPrefix(p, q) /\ Len(q) > Len(p)

RECURSIVE PathsOf(_, _)
PathsOf(node, prefix) ==
    IF node.t # "dict" THEN {}
    ELSE UNION {{Append(prefix, node.items[i].k)}
                  \cup PathsOf(node.items[i].v, Append(prefix, node.items[i].k))
                : i \in 1..Len(node.items)}

SchemePaths == PathsOf(scheme, <<>>)

RECURSIVE At(_, _)
At(node, path) ==
    IF path = <<>> THEN node
    ELSE At(Lookup(node.items, Head(path)), Tail(path))

(* every key of the path is a key of the dict found so far *)
RECURSIVE PathPresent(_, _)
PathPresent(doc, path) ==
    \/ path = <<>>
    \/ /\ doc.t = "dict"
       /\ Head(path) \in Keys(doc.items)
       /\ PathPresent(Lookup(doc.items, Head(path)), Tail(path))

Range(seq) == {seq[i] : i \in 1..Len(seq)}
Positions(seq, x) == {i \in 1..Len(seq) : seq[i] = x}
WalkCompleted == pc \in {"emit", "done"} \/ raisedIn = "emit"

----------------------------------------------------------------------------
----------------------------------------------------------------------------
(* the scheme key p is absent from the dict the document holds at the same *)
(* nesting level *)
Absent(p) ==
    /\ PathPresent(dictionary, Front(p))
    /\ At(dictionary, Front(p)).t = "dict"
    /\ Last(p) \notin Keys(At(dictionary, Front(p)).items)

SiblingIndex(p) ==
    CHOOSE i \in 1..Len(At(scheme, Front(p)).items) :
        At(scheme, Front(p)).items[i].k = Last(p)

HasNextSibling(p) == SiblingIndex(p) < Len(At(scheme, Front(p)).items)

NextSibling(p) ==
    Append(Front(p), At(scheme, Front(p)).items[SiblingIndex(p) + 1].k)

(* C2: a scheme key absent from the document at the same nesting level     *)
(* never raises: the walk yields no pair and writes no composite fragment  *)
(* for that key or anything below it, records one diagnostic for it, and   *)
(* goes on to the next sibling scheme key.                                 *)
C2_AbsentKeySkipped ==
    \A i \in 1..Len(visited) :
        LET p == visited[i]
        IN  Absent(p) =>
              /\ ~(raisedIn = "walk" /\ i = Len(visited))
              /\ Cardinality({j \in 1..Len(log) : log[j].path = p}) = 1
              /\ \A j \in 1..Len(log) : log[j].path = p => log[j].key = Last(p)
              /\ \A j \in 1..Len(src) : ~IsPrefix(p, src[j])
              /\ \A j \in 1..Len(writes) : ~IsPrefix(p, writes[j].path)
              /\ \A j \in 1..Len(visited) : ~StrictlyBelow(visited[j], p)
              /\ (HasNextSibling(p) /\ i < Len(visited))
                    => visited[i + 1] = NextSibling(p)
              /\ (HasNextSibling(p) /\ WalkCompleted)
                    => NextSibling(p) \in Range(visited)

(* an absent key was skipped and its next sibling then yielded a pair *)
C2_Witness ==
    /\ pc = "done"
    /\ \E i \in 1..Len(visited) :
          /\ Absent(visited[i])
          /\ HasNextSibling(visited[i])
          /\ NextSibling(visited[i]) \in Range(src)

----------------------------------------------------------------------------
WritesTo(name) ==
    LET F[i \in 0..Len(writes)] ==
            IF i = 0 THEN <<>>
            ELSE IF writes[i].name = name THEN Append(F[i - 1], writes[i])
                 ELSE F[i - 1]
    IN  F[Len(writes)]

CompositePairs(name) ==
    {i \in 1..Len(out) : src[i] = <<>> /\ out[i].attr = name}

Names == {"n", "m"}

----------------------------------------------------------------------------
MaxOf(S) == CHOOSE x \in S : \A y \in S : y <= x

(* C4: after any sequence of writes, the sequence of each name has length  *)
(* one more than the highest position written for it, and every position   *)
(* holds a value written at that position or the default.                  *)
C4_LengthIsHighestPlusOne ==
    \A c \in 1..Len(composites) :
        LET w == WritesTo(composites[c].k)
            list == composites[c].v
        IN  /\ Len(list) = 1 + MaxOf({w[j].pos : j \in 1..Len(w)})
            /\ \A i \in 1..Len(list) :
                  \/ list[i] = Default
                  \/ \E j \in 1..Len(w) :
                        w[j].pos = i - 1 /\ w[j].value = list[i]

----------------------------------------------------------------------------
ListOf(comp, name) == IF name \in Keys(comp) THEN Lookup(comp, name) ELSE <<>>

Max(a, b) == IF a >= b THEN a ELSE b

(* C5: a write never replaces an element: the sequence is padded with the  *)
(* default up to the position and the value is appended as the new last    *)
(* element, so a write to a covered position keeps every earlier element   *)
(* and adds exactly one; 'major' at 1 and then 'C' at 0 gives              *)
(* ['', 'major', 'C'], joined as ' major C'.                               *)
C5_SetAppends ==
    /\ [][writes' # writes =>
            LET w == writes'[Len(writes')]
                old == ListOf(composites, w.name)
                new == ListOf(composites', w.name)
            IN  /\ Len(new) = Max(Len(old), w.pos) + 1
                /\ new[Len(new)] = w.value
                /\ \A i \in 1..Len(old) : new[i] = old[i]
                /\ \A i \in (Len(old) + 1)..(Len(new) - 1) : new[i] = Default
                /\ w.pos < Len(old) => Len(new) = Len(old) + 1
                /\ \A other \in Keys(composites) \ {w.name} :
                      ListOf(composites', other) = ListOf(composites, other)
         ]_vars
    /\ [](LET w == WritesTo("n")
          IN  (/\ Len(w) = 2
               /\ w[1].pos = 1 /\ w[1].value = Str("major")
               /\ w[2].pos = 0 /\ w[2].value = Str("C"))
              => /\ ListOf(composites, "n") = <<Str(""), Str("major"), Str("C")>>
                 /\ pc = "done" =>
                      \E i \in CompositePairs("n") : out[i].val = Str(" major C"))

(* 'major' at position 1 and then 'C' at position 0 were joined *)
C5_Witness ==
    /\ pc = "done"
    /\ LET w == WritesTo("n")
       IN  /\ Len(w) = 2
           /\ w[1].pos = 1 /\ w[1].value = Str("major")
           /\ w[2].pos = 0 /\ w[2].value = Str("C")
    /\ \E i \in CompositePairs("n") : out[i].val = Str(" major C")

----------------------------------------------------------------------------
Written(name) == \E j \in 1..Len(writes) : writes[j].name = name

----------------------------------------------------------------------------
(* the document holds a scalar where the scheme path p has a Nested node *)
ShapeMismatch(p) ==
    /\ At(scheme, p).t = "dict"
    /\ PathPresent(dictionary, p)
    /\ At(dictionary, p).t # "dict"

(* C8: a present key whose value is a scalar where the scheme has a Nested *)
(* node is treated like a missing key: the walk raises no error, yields    *)
(* nothing for that subtree, and goes on with the remaining scheme keys.   *)
C8_ShapeMismatchSkipped ==
    \A i \in 1..Len(visited) :
        LET p == visited[i]
        IN  ShapeMismatch(p) =>
              /\ raisedIn # "walk"
              /\ \A j \in 1..Len(src) : ~IsPrefix(p, src[j])
              /\ \A j \in 1..Len(writes) : ~IsPrefix(p, writes[j].path)
              /\ (HasNextSibling(p) /\ WalkCompleted)
                    => NextSibling(p) \in Range(visited)

----------------------------------------------------------------------------
(* the scheme's paths in depth-first pre-order of its declaration *)
RECURSIVE PreOrderItems(_, _)
PreOrderItems(entries, prefix) ==
    IF entries = <<>> THEN <<>>
    ELSE LET path == Append(prefix, Head(entries).k)
             below == IF Head(entries).v.t = "dict"
                      THEN PreOrderItems(Head(entries).v.items, path)
                      ELSE <<>>
         IN  <<path>> \o below \o PreOrderItems(Tail(entries), prefix)

PreOrder == PreOrderItems(scheme.items, <<>>)

Rank(p) == CHOOSE i \in 1..Len(PreOrder) : PreOrder[i] = p

Ended == pc \in {"done", "raised"}

(* Python's == on values: dicts are equal when they hold equal values      *)
(* under the same keys, in whatever order *)
RECURSIVE SameValue(_, _)
SameValue(v, w) ==
    IF v.t = "dict" /\ w.t = "dict"
    THEN /\ Keys(v.items) = Keys(w.items)
         /\ \A k \in Keys(v.items) :
               SameValue(Lookup(v.items, k), Lookup(w.items, k))
    ELSE v = w

SameList(l, m) ==
    /\ Len(l) = Len(m)
    /\ \A i \in 1..Len(l) : SameValue(l[i], m[i])

SamePairs(o, q) ==
    /\ Len(o) = Len(q)
    /\ \A i \in 1..Len(o) :
          o[i].attr = q[i].attr /\ SameValue(o[i].val, q[i].val)

(* C6: the pairs of one mapping operation are a function of the scheme's   *)
(* declaration order and the document's content only: direct pairs come in *)
(* depth-first pre-order of the scheme; a document with the same content   *)
(* in another key order gives the same sequence of pairs; and a second run *)
(* on the same inputs, with its own accumulator, gives the same sequence   *)
(* again, nothing carried over from the first.                             *)
C6_OutputDeterminedByScheme ==
    /\ \A i, j \in 1..Len(src) :
          (i < j /\ src[i] # <<>> /\ src[j] # <<>>) => Rank(src[i]) < Rank(src[j])
    /\ \A i, j \in 1..Len(visited) : i < j => Rank(visited[i]) < Rank(visited[j])
    /\ (prev # <<>> /\ Ended) =>
          /\ SamePairs(out, prev[1].out)
          /\ pc = prev[1].pc
          /\ raisedIn = prev[1].raisedIn
          /\ Len(composites) = Len(prev[1].composites)
          /\ \A c \in 1..Len(composites) :
                /\ composites[c].k = prev[1].composites[c].k
                /\ SameList(composites[c].v, prev[1].composites[c].v)

(* a second run, on the document with its keys in another order, ended     *)
(* with the pairs of the first, direct and composite *)
C6_Witness ==
    /\ prev # <<>>
    /\ pc = "done"
    /\ dictionary # prev[1].dictionary
    /\ \E i, j \in 1..Len(out) : src[i] # <<>> /\ src[j] = <<>>
    /\ \E i, j \in 1..Len(visited) : Len(visited[i]) = 2 /\ Len(visited[j]) = 1 /\ i < j

----------------------------------------------------------------------------
(* C9: the walk terminates: it processes each scheme node at most once,    *)
(* each generator runs over the children of the scheme node it was made    *)
(* for, and the mapping operation ends (returns or raises) after the       *)
(* composite pairs, all of them when it returns.                           *)
C9_WalkTerminates ==
    /\ [](\A i, j \in 1..Len(visited) : i < j => visited[i] # visited[j])
    /\ [](Range(visited) \subseteq SchemePaths)
    /\ [](\A f \in 1..Len(stack) :
              /\ stack[f].path \in SchemePaths \cup {<<>>}
              /\ stack[f].items = At(scheme, stack[f].path).items
              /\ f > 1 => Front(stack[f].path) = stack[f - 1].path)
    /\ [](pc = "done" => /\ stack = <<>>
                         /\ ci = Len(composites) + 1
                         /\ \A c \in 1..Len(composites) :
                               CompositePairs(composites[c].k) # {})
    /\ <>Ended

(* the operation returned after descending into a nested scheme node and   *)
(* emitting a composite *)
C9_Witness ==
    /\ pc = "done"
    /\ \E i \in 1..Len(visited) : Len(visited[i]) = 2
    /\ \E i \in 1..Len(out) : src[i] = <<>>

----------------------------------------------------------------------------
RequestsOf(i) == {r \in 1..Len(requests) : requests[r].item = i}

FailedItem(i) == \E r \in RequestsOf(i) : requests[r].outcome # "ok"

(* C10: when any request of an item fails (exception, 404, invalid JSON),  *)
(* also after an earlier level was fetched, _get_data returns an empty     *)
(* document, no attribute of the item is set, the item is neither stored   *)
(* nor written, no request is made again, and the loop goes on to the next *)
(* item.                                                                   *)
C10_FailedFetchLeavesItem ==
    \A i \in 1..Len(items) :
        FailedItem(i) =>
            /\ idx >= i
            /\ idx = i => (fpc = "got" /\ data = Dict(<<>>))
            /\ attrs[i] = <<>>
            /\ ~stored[i]
            /\ ~written[i]
            /\ \A r, q \in RequestsOf(i) :
                  /\ (r # q) => requests[r].url # requests[q].url
                  /\ (requests[r].outcome # "ok") => q <= r
            /\ fpc # "raised" \/ idx # i
            /\ (fpc = "end") =>
                  \A j \in 1..Len(items) :
                      items[j].mb_trackid # "" => RequestsOf(j) # {}

(* the first item's second request failed after its first had succeeded,   *)
(* and the second item was then fetched, mapped, stored and written *)
C10_Witness ==
    /\ fpc = "end"
    /\ Len(items) = 2
    /\ Cardinality(RequestsOf(1)) = 2
    /\ FailedItem(1)
    /\ attrs[2] # <<>>
    /\ stored[2]
    /\ written[2]

=============================================================================
